---- MODULE Spec2Model ----
(***************************************************************************)
(* Model of @mongez/sitemap (src/src/index.ts): the Sitemap route          *)
(* collection and the SiteMapGenerator serializer.                         *)
(*                                                                         *)
(* Strings are sequences of one-character strings, so that trimming and    *)
(* concatenation are computed rather than assumed.  An object with         *)
(* optional fields is a record whose DOMAIN holds the fields present.  A   *)
(* JavaScript object used as a map (hreflang) is a sequence of [key, val]  *)
(* entries with distinct keys, in insertion order.  An XML document is the *)
(* sequence of its lines; a line is [el, attr, text].                      *)
(*                                                                         *)
(* A method is an operator from the receiver ("self") and the arguments    *)
(* to [this |-> receiver afterwards, return |-> returned value].           *)
(***************************************************************************)
EXTENDS Integers, Sequences, FiniteSets, TLC

VARIABLES sm, calls, files, lastAdd

vars == <<sm, calls, files, lastAdd>>

(***************************************************************************)
(* Bounds of the model.                                                    *)
(***************************************************************************)
MaxRoutes == 2
MaxRoutesConc == 1

Slash == <<"/">>

(***************************************************************************)
(* The inputs the environment draws from.                                  *)
(***************************************************************************)
BaseUrls == {<<"h">>}

en == <<"e">>
ar == <<"a">>

LocaleLists == {<<>>, <<en, ar>>, <<en, en>>}

\* A bare string is [string |-> s]; a SitemapPath record holds the fields given.
Inputs ==
    { [string |-> <<"/", "p">>],
      [string |-> <<"q">>],
      [path |-> <<"/", "/", "p">>, priority |-> 0,
       lastModified |-> [date |-> <<"Z">>]],
      [path |-> <<"q">>, priority |-> 1, changeFrequency |-> <<"d">>,
       hreflang |-> <<[key |-> <<"f">>, val |-> <<"x">>]>>] }

\* generate(limit?): <<>> is "no argument", <<n>> is the argument n.
Limits == {<<>>, <<-1>>, <<0>>, <<1>>}

DestPaths == {<<"o">>}

Calls == {1, 2}

(***************************************************************************)
(* Library functions imported at index.ts:1-2.                             *)
(***************************************************************************)
\* ltrim(str, needle) of @mongez/reinforcements: removes every leading
\* occurrence of the needle (str.replace(/^needle+/, "")).
RECURSIVE ltrim(_, _)
ltrim(s, needle) ==
    IF Len(s) >= Len(needle) /\ Len(needle) > 0 /\ SubSeq(s, 1, Len(needle)) = needle
    THEN ltrim(SubSeq(s, Len(needle) + 1, Len(s)), needle)
    ELSE s

\* clone(value): a deep copy; values of the model have no identity.
clone(v) == v

Has(r, f) == f \in DOMAIN r

WithField(r, f, v) == [x \in (DOMAIN r) \cup {f} |-> IF x = f THEN v ELSE r[x]]

\* obj[key] = val on a JavaScript object: an existing key keeps its place.
ObjSet(obj, k, v) ==
    IF \E i \in 1..Len(obj) : obj[i].key = k
    THEN [i \in 1..Len(obj) |-> IF obj[i].key = k THEN [key |-> k, val |-> v] ELSE obj[i]]
    ELSE Append(obj, [key |-> k, val |-> v])

\* Array.prototype.slice(start, end)
slice(arr, start, end) ==
    LET n == Len(arr)
        from == IF start < 0 THEN (IF n + start < 0 THEN 0 ELSE n + start)
                ELSE (IF start > n THEN n ELSE start)
        to == IF end < 0 THEN (IF n + end < 0 THEN 0 ELSE n + end)
              ELSE (IF end > n THEN n ELSE end)
    IN IF to <= from THEN <<>> ELSE SubSeq(arr, from + 1, to)

\* `${n}` for a non-negative integer
Digits == <<"0", "1", "2", "3", "4", "5", "6", "7", "8", "9">>

RECURSIVE NumberToString(_)
NumberToString(n) ==
    IF n < 10 THEN <<Digits[n + 1]>>
    ELSE NumberToString(n \div 10) \o <<Digits[(n % 10) + 1]>>

(***************************************************************************)
(* class Sitemap                                                           *)
(***************************************************************************)
\* new Sitemap(baseUrl, localeCodes = [])
NewSitemap(baseUrl, localeCodes) ==
    [baseUrl |-> baseUrl, localeCodes |-> localeCodes, paths |-> <<>>]

\* Faulty variant of setLocales: the routes already added are normalised again.
setLocales_reparsing(self, localeCodes) ==
    [this |-> [self EXCEPT
                  !.localeCodes = localeCodes,
                  !.paths = [i \in 1..Len(self.paths) |->
                                IF localeCodes # <<>>
                                THEN WithField(self.paths[i], "hreflang",
                                         [k \in 1..Len(localeCodes) |->
                                             [key |-> localeCodes[k],
                                              val |-> self.baseUrl \o Slash \o localeCodes[k]]])
                                ELSE self.paths[i]]],
     return |-> "this"]

setLocales(self, localeCodes) ==
    [this |-> [self EXCEPT !.localeCodes = localeCodes], return |-> "this"]

\* the loop of parsePath over this.localeCodes, from its k-th element
RECURSIVE hreflangLoop(_, _, _, _)
hreflangLoop(self, rawPath, k, hreflang) ==
    IF k > Len(self.localeCodes) THEN hreflang
    ELSE hreflangLoop(self, rawPath, k + 1,
            ObjSet(hreflang, self.localeCodes[k],
                   self.baseUrl \o Slash \o self.localeCodes[k] \o Slash
                       \o ltrim(rawPath, Slash)))

\* Faulty variants of parsePath: the path is not trimmed; the hreflang of the input is
\* kept and added to; only an absent priority gets the default.
parsePath_untrimmed(self, path) ==
    LET asRecord == IF Has(path, "string") THEN [path |-> path.string] ELSE path
        withPriority ==
            IF ~Has(asRecord, "priority") \/ asRecord.priority = 0
            THEN WithField(asRecord, "priority", 1)
            ELSE asRecord
        withHreflang ==
            IF Len(self.localeCodes) # 0
            THEN WithField(withPriority, "hreflang",
                           hreflangLoop(self, withPriority.path, 1, <<>>))
            ELSE withPriority
    IN [withHreflang EXCEPT !.path = self.baseUrl \o Slash \o withHreflang.path]

parsePath_keepsInputHreflang(self, path) ==
    LET asRecord == IF Has(path, "string") THEN [path |-> path.string] ELSE path
        withPriority ==
            IF ~Has(asRecord, "priority") \/ asRecord.priority = 0
            THEN WithField(asRecord, "priority", 1)
            ELSE asRecord
        withHreflang ==
            IF Len(self.localeCodes) # 0
            THEN WithField(withPriority, "hreflang",
                           hreflangLoop(self, withPriority.path, 1,
                               IF Has(withPriority, "hreflang")
                               THEN withPriority.hreflang ELSE <<>>))
            ELSE withPriority
    IN [withHreflang EXCEPT
            !.path = self.baseUrl \o Slash \o ltrim(withHreflang.path, Slash)]

parsePath_defaultsAbsentPriorityOnly(self, path) ==
    LET asRecord == IF Has(path, "string") THEN [path |-> path.string] ELSE path
        withPriority ==
            IF ~Has(asRecord, "priority")
            THEN WithField(asRecord, "priority", 1)
            ELSE asRecord
        withHreflang ==
            IF Len(self.localeCodes) # 0
            THEN WithField(withPriority, "hreflang",
                           hreflangLoop(self, withPriority.path, 1, <<>>))
            ELSE withPriority
    IN [withHreflang EXCEPT
            !.path = self.baseUrl \o Slash \o ltrim(withHreflang.path, Slash)]

parsePath(self, path) ==
    LET asRecord == IF Has(path, "string") THEN [path |-> path.string] ELSE path
        internalRoute == clone(asRecord)
        withPriority ==
            IF ~Has(internalRoute, "priority") \/ internalRoute.priority = 0
            THEN WithField(internalRoute, "priority", 1)
            ELSE internalRoute
        withHreflang ==
            IF Len(self.localeCodes) # 0
            THEN WithField(withPriority, "hreflang",
                           hreflangLoop(self, withPriority.path, 1, <<>>))
            ELSE withPriority
    IN [withHreflang EXCEPT
            !.path = self.baseUrl \o Slash \o ltrim(withHreflang.path, Slash)]

add(self, path) ==
    [this |-> [self EXCEPT !.paths = Append(@, parsePath(self, path))],
     return |-> "undefined"]

(***************************************************************************)
(* class SiteMapGenerator                                                  *)
(***************************************************************************)
NewSiteMapGenerator == [urls |-> <<>>]

\* add(...urls): pushes each url in turn
SiteMapGenerator_add(gen, urls) == [gen EXCEPT !.urls = @ \o urls]

Line(el, attr, text) == [el |-> el, attr |-> attr, text |-> text]

\* one xhtml:link line per entry of Object.entries(route.hreflang)
hreflangLines(hreflang) ==
    [i \in 1..Len(hreflang) |-> Line("xhtml:link", hreflang[i].key, hreflang[i].val)]

\* the body of the loop of generate for one route
urlLines(route) ==
    <<Line("url", <<>>, <<>>), Line("loc", <<>>, route.path)>>
    \o (IF Has(route, "lastModified")
           /\ (Has(route.lastModified, "string") => route.lastModified.string # <<>>)
        THEN <<Line("lastmod", <<>>,
                    IF Has(route.lastModified, "string")
                    THEN route.lastModified.string
                    ELSE route.lastModified.date)>>
        ELSE <<>>)
    \o (IF Has(route, "changeFrequency") /\ route.changeFrequency # <<>>
        THEN <<Line("changefreq", <<>>, route.changeFrequency)>>
        ELSE <<>>)
    \o (IF Has(route, "priority") /\ route.priority # 0
        THEN <<Line("priority", <<>>, NumberToString(route.priority))>>
        ELSE <<>>)
    \o (IF Has(route, "hreflang") THEN hreflangLines(route.hreflang) ELSE <<>>)
    \o <<Line("/url", <<>>, <<>>)>>

RECURSIVE urlsLines(_, _)
urlsLines(routesList, k) ==
    IF k > Len(routesList) THEN <<>>
    ELSE urlLines(routesList[k]) \o urlsLines(routesList, k + 1)

\* Faulty variant of SiteMapGenerator.generate: the truncation keeps one route too many.
SiteMapGenerator_generate_offByOne(gen, limit) ==
    LET routesList == IF Len(limit) = 1 /\ limit[1] # 0
                      THEN slice(clone(gen.urls), 0, limit[1] + 1)
                      ELSE clone(gen.urls)
    IN <<Line("?xml", <<>>, <<>>), Line("urlset", <<>>, <<>>)>>
       \o urlsLines(routesList, 1)
       \o <<Line("/urlset", <<>>, <<>>)>>

SiteMapGenerator_generate(gen, limit) ==
    LET routesList == IF Len(limit) = 1 /\ limit[1] # 0
                      THEN slice(clone(gen.urls), 0, limit[1])
                      ELSE clone(gen.urls)
    IN <<Line("?xml", <<>>, <<>>), Line("urlset", <<>>, <<>>)>>
       \o urlsLines(routesList, 1)
       \o <<Line("/urlset", <<>>, <<>>)>>

RECURSIVE sitemapLines(_, _)
sitemapLines(routesList, k) ==
    IF k > Len(routesList) THEN <<>>
    ELSE <<Line("sitemap", <<>>, <<>>), Line("loc", <<>>, routesList[k].path),
           Line("/sitemap", <<>>, <<>>)>>
         \o sitemapLines(routesList, k + 1)

SiteMapGenerator_generateSitemapsList(gen) ==
    <<Line("?xml", <<>>, <<>>), Line("sitemapindex", <<>>, <<>>)>>
    \o sitemapLines(clone(gen.urls), 1)
    \o <<Line("/sitemapindex", <<>>, <<>>)>>

(***************************************************************************)
(* class Sitemap: the generation methods                                   *)
(***************************************************************************)
\* Faulty variant of Sitemap.generate: the limit truncates the collection itself.
generate_truncating(self, limit) ==
    [this |-> IF Len(limit) = 1 /\ limit[1] # 0
              THEN [self EXCEPT !.paths = slice(@, 0, limit[1])]
              ELSE self,
     return |-> SiteMapGenerator_generate(
                    SiteMapGenerator_add(NewSiteMapGenerator, self.paths), limit)]

generate(self, limit) ==
    [this |-> self,
     return |-> SiteMapGenerator_generate(
                    SiteMapGenerator_add(NewSiteMapGenerator, self.paths), limit)]

toXML(self) == generate(self, <<>>)

generateSitemapsList(self) ==
    [this |-> self,
     return |-> SiteMapGenerator_generateSitemapsList(
                    SiteMapGenerator_add(NewSiteMapGenerator, self.paths))]

(***************************************************************************)
(* An invocation of an async method: its arguments, its locals and where   *)
(* it is suspended.  pc is "idle" (no invocation), "await" (suspended at   *)
(* the method's await) or "done" (the promise is resolved with result).    *)
(***************************************************************************)
NullSitemap == NewSitemap(<<>>, <<>>)

Idle ==
    [op |-> "idle", pc |-> "idle", limit |-> <<>>, dest |-> <<>>,
     localeCodes |-> <<>>, i |-> 0, sitemapIndex |-> NullSitemap,
     sitemap |-> NullSitemap, xml |-> <<>>, result |-> <<>>]

\* `/sitemap-${localeCode}.xml`
sitemapFileName(localeCode) ==
    <<"/", "s", "i", "t", "e", "m", "a", "p", "-">> \o localeCode
        \o <<".", "x", "m", "l">>

\* for (const route of this.paths) sitemap.add(route), from the k-th route
RECURSIVE addRoutes(_, _, _)
addRoutes(sitemap, routes, k) ==
    IF k > Len(routes) THEN sitemap
    ELSE addRoutes(add(sitemap, routes[k]).this, routes, k + 1)

\* generateMultiLanguage from the head of its loop over the locale codes to
\* its next suspension (await sitemap.toXML()) or to its return
generateMultiLanguageLoop(self, frame) ==
    IF frame.i <= Len(frame.localeCodes)
    THEN LET sitemap == addRoutes(
                 NewSitemap(self.baseUrl \o Slash \o frame.localeCodes[frame.i], <<>>),
                 self.paths, 1)
         IN [frame EXCEPT !.sitemap = sitemap,
                          !.xml = toXML(sitemap).return,
                          !.pc = "await"]
    ELSE [frame EXCEPT !.result = generateSitemapsList(frame.sitemapIndex).return,
                       !.pc = "done"]

\* the call: from the entry to the first suspension or the return
generateMultiLanguage(self) ==
    [this |-> self,
     frame |-> generateMultiLanguageLoop(self,
                  [Idle EXCEPT !.op = "generateMultiLanguage",
                               !.sitemapIndex = NewSitemap(self.baseUrl, <<>>),
                               !.localeCodes = self.localeCodes,
                               !.i = 1])]

\* Faulty variant of generateMultiLanguageResume: the reference is added to the child
\* collection instead of the index collection.
generateMultiLanguageResume_addsToChild(self, frame) ==
    [this |-> self,
     frame |-> generateMultiLanguageLoop(self,
                  [frame EXCEPT
                      !.sitemap =
                          add(@, [string |-> sitemapFileName(frame.localeCodes[frame.i])]).this,
                      !.i = @ + 1])]

\* the resumption after await sitemap.toXML(): the rest of the loop body, then
\* on to the next suspension or the return
generateMultiLanguageResume(self, frame) ==
    [this |-> self,
     frame |-> generateMultiLanguageLoop(self,
                  [frame EXCEPT
                      !.sitemapIndex =
                          add(@, [string |-> sitemapFileName(frame.localeCodes[frame.i])]).this,
                      !.i = @ + 1])]

\* saveTo up to its await this.generate()
saveTo(self, path) ==
    LET g == generate(self, <<>>)
    IN [this |-> g.this,
        frame |-> [Idle EXCEPT !.op = "saveTo", !.dest = path,
                               !.xml = g.return, !.pc = "await"]]

\* putFile(path, content) of @mongez/fs on the file system fs, the set of the
\* files written: the file at path is created or overwritten
putFile(fs, path, content) ==
    {f \in fs : f.path # path} \cup {[path |-> path, content |-> content]}

\* saveTo after its await: putFile(path, content); return this
saveToResume(fs, frame) ==
    [files |-> putFile(fs, frame.dest, frame.xml),
     frame |-> [frame EXCEPT !.pc = "done"]]

\* Faulty variant of Frame: sitemapIndex is one object shared by the invocations in
\* flight (the one the earliest of them made) instead of a local of each.
Frame_sharedIndex(cs, c) ==
    LET inFlight == {d \in DOMAIN cs :
                        cs[d].op = "generateMultiLanguage" /\ cs[d].pc = "await"}
    IN IF c \in inFlight
       THEN [cs[c] EXCEPT
                !.sitemapIndex =
                    cs[CHOOSE d \in inFlight : \A x \in inFlight : d <= x].sitemapIndex]
       ELSE cs[c]

\* the locals of invocation c: each invocation has its own
Frame(cs, c) == cs[c]

(***************************************************************************)
(* The state machine.  sm is the collection the caller holds; calls are    *)
(* the invocations in flight; files are the files putFile has written;        *)
(* lastAdd (history) is the argument of the latest add on sm and the       *)
(* locale list in force when it was made.                                  *)
(* The caller serialises mutation with generation: add and setLocales are  *)
(* called while no invocation is in flight.                                *)
(***************************************************************************)
AllIdle == \A c \in Calls : calls[c].pc = "idle"

Init ==
    /\ \E b \in BaseUrls, L \in LocaleLists : sm = NewSitemap(b, L)
    /\ calls = [c \in Calls |-> Idle]
    /\ files = {}
    /\ lastAdd = <<>>

Add(p, max) ==
    /\ AllIdle
    /\ Len(sm.paths) < max
    /\ sm' = add(sm, p).this
    /\ lastAdd' = <<[input |-> p, localeCodes |-> sm.localeCodes]>>
    /\ UNCHANGED <<calls, files>>

SetLocales(L) ==
    /\ AllIdle
    /\ sm' = setLocales(sm, L).this
    /\ UNCHANGED <<calls, files, lastAdd>>

Generate(c, limit) ==
    /\ calls[c].pc = "idle"
    /\ LET g == generate(sm, limit)
       IN /\ sm' = g.this
          /\ calls' = [calls EXCEPT ![c] =
                 [Idle EXCEPT !.op = "generate", !.limit = limit,
                              !.result = g.return, !.pc = "done"]]
    /\ UNCHANGED <<files, lastAdd>>

ToXML(c) ==
    /\ calls[c].pc = "idle"
    /\ LET g == toXML(sm)
       IN /\ sm' = g.this
          /\ calls' = [calls EXCEPT ![c] =
                 [Idle EXCEPT !.op = "toXML", !.result = g.return, !.pc = "done"]]
    /\ UNCHANGED <<files, lastAdd>>

GenerateSitemapsList(c) ==
    /\ calls[c].pc = "idle"
    /\ LET g == generateSitemapsList(sm)
       IN /\ sm' = g.this
          /\ calls' = [calls EXCEPT ![c] =
                 [Idle EXCEPT !.op = "generateSitemapsList",
                              !.result = g.return, !.pc = "done"]]
    /\ UNCHANGED <<files, lastAdd>>

GenerateMultiLanguage(c) ==
    /\ calls[c].pc = "idle"
    /\ LET g == generateMultiLanguage(sm)
       IN /\ sm' = g.this
          /\ calls' = [calls EXCEPT ![c] = g.frame]
    /\ UNCHANGED <<files, lastAdd>>

GenerateMultiLanguageResume(c) ==
    /\ calls[c].op = "generateMultiLanguage"
    /\ calls[c].pc = "await"
    /\ LET g == generateMultiLanguageResume(sm, Frame(calls, c))
       IN /\ sm' = g.this
          /\ calls' = [calls EXCEPT ![c] = g.frame]
    /\ UNCHANGED <<files, lastAdd>>

SaveTo(c, path) ==
    /\ calls[c].pc = "idle"
    /\ LET g == saveTo(sm, path)
       IN /\ sm' = g.this
          /\ calls' = [calls EXCEPT ![c] = g.frame]
    /\ UNCHANGED <<files, lastAdd>>

SaveToResume(c) ==
    /\ calls[c].op = "saveTo"
    /\ calls[c].pc = "await"
    /\ LET g == saveToResume(files, Frame(calls, c))
       IN /\ files' = g.files
          /\ calls' = [calls EXCEPT ![c] = g.frame]
    /\ UNCHANGED <<sm, lastAdd>>

\* the caller takes the resolved promise's value
Return(c) ==
    /\ calls[c].pc = "done"
    /\ calls' = [calls EXCEPT ![c] = Idle]
    /\ UNCHANGED <<sm, files, lastAdd>>

\* one caller, one invocation at a time
Next ==
    \/ \E p \in Inputs : Add(p, MaxRoutes)
    \/ \E L \in LocaleLists : SetLocales(L)
    \/ \E limit \in Limits : Generate(1, limit)
    \/ ToXML(1)
    \/ GenerateSitemapsList(1)
    \/ GenerateMultiLanguage(1)
    \/ GenerateMultiLanguageResume(1)
    \/ \E path \in DestPaths : SaveTo(1, path)
    \/ SaveToResume(1)
    \/ Return(1)

Spec == Init /\ [][Next]_vars

\* two invocations of the generation methods in flight at once
NextConc ==
    \/ \E p \in Inputs : Add(p, MaxRoutesConc)
    \/ \E L \in LocaleLists : SetLocales(L)
    \/ \E c \in Calls :
        \/ \E limit \in Limits : Generate(c, limit)
        \/ ToXML(c)
        \/ GenerateSitemapsList(c)
        \/ GenerateMultiLanguage(c)
        \/ GenerateMultiLanguageResume(c)
        \/ Return(c)

SpecConc == Init /\ [][NextConc]_vars

(***************************************************************************)
(* Vocabulary of the properties.                                           *)
(***************************************************************************)
\* the relative path an input of add gives
RawPath(input) == IF Has(input, "string") THEN input.string ELSE input.path

\* P with all its leading slashes removed
StripLeadingSlashes(P) ==
    LET k == CHOOSE n \in 0..Len(P) :
                 /\ \A j \in 1..n : P[j] = "/"
                 /\ (n < Len(P) => P[n + 1] # "/")
    IN SubSeq(P, k + 1, Len(P))

\* the texts of the lines of a document with element el, in order
TextsOf(doc, el) ==
    LET lines == SelectSeq(doc, LAMBDA l : l.el = el)
    IN [i \in 1..Len(lines) |-> lines[i].text]

\* the number of <url> blocks of a document
UrlBlocks(doc) == Cardinality({i \in DOMAIN doc : doc[i].el = "url"})

\* the lines of the last <url> block of a document that has one
LastUrlBlock(doc) ==
    LET start == CHOOSE i \in DOMAIN doc :
                     /\ doc[i].el = "url"
                     /\ \A j \in DOMAIN doc : doc[j].el = "url" => j <= i
    IN SubSeq(doc, start, Len(doc) - 1)

\* the paths of the first n routes of the collection
FirstPaths(n) == [i \in 1..n |-> sm.paths[i].path]

LastRoute == sm.paths[Len(sm.paths)]

Range(seq) == {seq[i] : i \in DOMAIN seq}

\* C1: after add(P), given as a bare string or as the path field of a record,
\* the appended route's path is baseUrl + "/" + P without its leading slashes.
C1_AddedPath ==
    lastAdd # <<>> =>
        LastRoute.path =
            sm.baseUrl \o <<"/">> \o StripLeadingSlashes(RawPath(lastAdd[1].input))

C1_Witness ==
    /\ lastAdd # <<>>
    /\ Len(RawPath(lastAdd[1].input)) >= 2
    /\ RawPath(lastAdd[1].input)[1] = "/"
    /\ RawPath(lastAdd[1].input)[2] = "/"
    /\ ~Has(lastAdd[1].input, "string")

\* the value the hreflang entry of a locale code is to have
HreflangValue(code, input) ==
    sm.baseUrl \o <<"/">> \o code \o <<"/">> \o StripLeadingSlashes(RawPath(input))

\* C2 as stated: with a non-empty locale list L, the appended route's hreflang
\* has exactly |L| entries, one per code of L, each baseUrl/code/P.
C2_OneEntryPerListedCode ==
    (lastAdd # <<>> /\ lastAdd[1].localeCodes # <<>>) =>
        /\ Has(LastRoute, "hreflang")
        /\ Len(LastRoute.hreflang) = Len(lastAdd[1].localeCodes)
        /\ \A code \in Range(lastAdd[1].localeCodes) :
               \E e \in Range(LastRoute.hreflang) :
                   e.key = code /\ e.val = HreflangValue(code, lastAdd[1].input)

\* C2 amended: with a non-empty locale list L, the appended route's hreflang
\* has exactly one entry per distinct code of L, each baseUrl/code/P, and
\* nothing else (an hreflang given on the input is gone).
C2_OneEntryPerDistinctCode ==
    (lastAdd # <<>> /\ lastAdd[1].localeCodes # <<>>) =>
        /\ Has(LastRoute, "hreflang")
        /\ Len(LastRoute.hreflang) = Cardinality(Range(lastAdd[1].localeCodes))
        /\ \A code \in Range(lastAdd[1].localeCodes) :
               \E e \in Range(LastRoute.hreflang) :
                   e.key = code /\ e.val = HreflangValue(code, lastAdd[1].input)
        /\ \A e \in Range(LastRoute.hreflang) : e.key \in Range(lastAdd[1].localeCodes)

C2_Witness ==
    /\ lastAdd # <<>>
    /\ Len(lastAdd[1].localeCodes) = 2
    /\ Cardinality(Range(lastAdd[1].localeCodes)) = 1
    /\ Has(lastAdd[1].input, "hreflang")
    /\ Len(LastRoute.hreflang) = 1

\* the invocations of generate whose promise is resolved
GenerateDone == {c \in Calls : calls[c].op = "generate" /\ calls[c].pc = "done"}

\* C3 as stated: generate(limit) with limit < length (0 and negative limits
\* included) returns exactly limit <url> blocks, the first limit routes in
\* insertion order; generate() returns one block per route, in order.
C3_LimitBlocks ==
    \A c \in GenerateDone :
        LET doc == calls[c].result
            limit == calls[c].limit
        IN /\ (limit # <<>> /\ limit[1] < Len(sm.paths)) =>
                  /\ UrlBlocks(doc) = limit[1]
                  /\ TextsOf(doc, "loc") = FirstPaths(limit[1])
           /\ limit = <<>> =>
                  /\ UrlBlocks(doc) = Len(sm.paths)
                  /\ TextsOf(doc, "loc") = FirstPaths(Len(sm.paths))

\* the number of routes generate(limit) is to keep of n
Kept(limit, n) ==
    IF limit = <<>> \/ limit[1] = 0 THEN n
    ELSE IF limit[1] < 0 THEN (IF n + limit[1] < 0 THEN 0 ELSE n + limit[1])
    ELSE IF limit[1] < n THEN limit[1] ELSE n

\* C3 amended: generate(limit) with 1 <= limit < length returns exactly limit
\* <url> blocks, the first limit routes in insertion order; generate() and
\* generate(0) return one block per route; generate(-k) with k > 0 returns the
\* first max(length - k, 0) routes.
C3_LimitBlocksAmended ==
    \A c \in GenerateDone :
        LET doc == calls[c].result
            kept == Kept(calls[c].limit, Len(sm.paths))
        IN /\ UrlBlocks(doc) = kept
           /\ TextsOf(doc, "loc") = FirstPaths(kept)

C3_Witness ==
    \E c \in GenerateDone :
        /\ calls[c].limit = <<1>>
        /\ Len(sm.paths) = 2
        /\ UrlBlocks(calls[c].result) = 1

\* the invocations of generateMultiLanguage suspended at await sitemap.toXML()
MultiLanguageAwaiting ==
    {c \in Calls : calls[c].op = "generateMultiLanguage" /\ calls[c].pc = "await"}

MultiLanguageDone ==
    {c \in Calls : calls[c].op = "generateMultiLanguage" /\ calls[c].pc = "done"}

\* what follows baseUrl + "/" in the path of a route of the collection: the
\* relative path it was added with, without its leading slashes
RelativePart(route) == SubSeq(route.path, Len(sm.baseUrl) + 2, Len(route.path))

\* C4: in generateMultiLanguage the child collection of locale code c holds,
\* for every route of the parent, a route with no hreflang whose path is
\* baseUrl + "/" + c + "/" + the route's relative path.
C4_ChildRoutes ==
    \A c \in MultiLanguageAwaiting :
        LET child == calls[c].sitemap
            code == calls[c].localeCodes[calls[c].i]
        IN /\ Len(child.paths) = Len(sm.paths)
           /\ \A j \in 1..Len(sm.paths) :
                  /\ ~Has(child.paths[j], "hreflang")
                  /\ child.paths[j].path =
                         sm.baseUrl \o <<"/">> \o code \o <<"/">>
                             \o RelativePart(sm.paths[j])

\* sitemap-<localeCode>.xml
ChildFileName(code) ==
    <<"s", "i", "t", "e", "m", "a", "p", "-">> \o code \o <<".", "x", "m", "l">>

\* C5: a completed generateMultiLanguage has handed to the file writer, for
\* every configured locale code, a payload at sitemap-<localeCode>.xml.
C5_ChildFilesWritten ==
    \A c \in MultiLanguageDone :
        \A k \in 1..Len(calls[c].localeCodes) :
            \E f \in files : f.path = ChildFileName(calls[c].localeCodes[k])

\* C6: generateMultiLanguage returns a <sitemapindex> with exactly one
\* <sitemap> entry per configured locale code, in configured order, duplicates
\* kept, the i-th <loc> being baseUrl + "/sitemap-<code_i>.xml"; none for an
\* empty locale list.
C6_IndexEntries ==
    \A c \in MultiLanguageDone :
        LET doc == calls[c].result
            L == sm.localeCodes
        IN /\ [i \in 1..Len(doc) |-> doc[i].el] =
                  <<"?xml", "sitemapindex">>
                  \o [i \in 1..(3 * Len(L)) |->
                         IF i % 3 = 1 THEN "sitemap"
                         ELSE IF i % 3 = 2 THEN "loc" ELSE "/sitemap"]
                  \o <<"/sitemapindex">>
           /\ TextsOf(doc, "loc") =
                  [i \in 1..Len(L) |->
                      sm.baseUrl \o <<"/">> \o ChildFileName(L[i])]

C6_Witness ==
    \E c \in MultiLanguageDone :
        /\ sm.localeCodes = <<en, en>>
        /\ Len(sm.paths) > 0
        /\ Len(TextsOf(calls[c].result, "loc")) = 2

\* C7 as stated: a route added with priority 0 is rendered with no <priority>
\* element, a route added with no priority with <priority>1</priority>.
C7_ZeroPriorityOmitted ==
    \A c \in GenerateDone :
        (calls[c].limit = <<>> /\ lastAdd # <<>>) =>
            LET block == LastUrlBlock(calls[c].result)
                input == lastAdd[1].input
            IN /\ (Has(input, "priority") /\ input.priority = 0) =>
                      TextsOf(block, "priority") = <<>>
               /\ ~Has(input, "priority") =>
                      TextsOf(block, "priority") = << <<"1">> >>

\* C7 amended: a route added with priority 0 is rendered, like a route added
\* with no priority, with <priority>1</priority>.
C7_ZeroPriorityDefaulted ==
    \A c \in GenerateDone :
        (calls[c].limit = <<>> /\ lastAdd # <<>>) =>
            LET block == LastUrlBlock(calls[c].result)
                input == lastAdd[1].input
            IN (~Has(input, "priority") \/ input.priority = 0) =>
                   TextsOf(block, "priority") = << <<"1">> >>

C7_Witness ==
    \E c \in GenerateDone :
        /\ calls[c].limit = <<>>
        /\ lastAdd # <<>>
        /\ Has(lastAdd[1].input, "priority")
        /\ lastAdd[1].input.priority = 0
        /\ TextsOf(LastUrlBlock(calls[c].result), "priority") = << <<"1">> >>

\* the locale codes the hreflang of a route was computed from
HreflangKeys(route) ==
    IF Has(route, "hreflang") THEN {e.key : e \in Range(route.hreflang)} ELSE {}

\* C8: setLocales changes only the locale list used by later adds.  A step
\* that changes the locale list leaves the routes as they are; every step keeps
\* the routes already added; and the route an add appends has its hreflang
\* computed from the locale list in force at that add.
C8_SetLocalesFrame ==
    [][ /\ Len(sm'.paths) >= Len(sm.paths)
        /\ SubSeq(sm'.paths, 1, Len(sm.paths)) = sm.paths
        /\ sm'.baseUrl = sm.baseUrl
        /\ sm'.localeCodes # sm.localeCodes => sm'.paths = sm.paths
        /\ (Len(sm'.paths) > Len(sm.paths) /\ sm.localeCodes # <<>>) =>
               /\ sm'.localeCodes = sm.localeCodes
               /\ HreflangKeys(sm'.paths[Len(sm'.paths)]) = Range(sm.localeCodes)
      ]_vars

C8_Witness ==
    /\ Len(sm.paths) = 2
    /\ HreflangKeys(sm.paths[1]) = {en, ar}
    /\ HreflangKeys(sm.paths[2]) = {en}
    /\ sm.localeCodes = <<en, en>>

\* the key of an invocation: the method and its argument
SameCall(c, d) == calls[c].op = calls[d].op /\ calls[c].limit = calls[d].limit

GenerationOps == {"generate", "toXML", "generateSitemapsList", "generateMultiLanguage"}

\* C9: no step of generate, toXML, generateSitemapsList or
\* generateMultiLanguage changes the collection (routes, base URL, locale
\* list), and two calls of the same generation operation with no add or
\* setLocales between them return the same document.
C9_GenerationFrame ==
    /\ [][calls' # calls => sm' = sm]_vars
    /\ [](\A c, d \in Calls :
            (/\ calls[c].op \in GenerationOps
             /\ calls[c].pc = "done" /\ calls[d].pc = "done"
             /\ SameCall(c, d))
            => calls[c].result = calls[d].result)

C9_Witness ==
    /\ calls[1].op = "generate" /\ calls[1].pc = "done" /\ calls[1].limit = <<1>>
    /\ calls[2].op = "generate" /\ calls[2].pc = "done" /\ calls[2].limit = <<1>>
    /\ Len(sm.paths) > 0
    /\ UrlBlocks(calls[2].result) = 1

\* generateMultiLanguage run alone on the collection, up to its suspension in
\* the i-th turn of its loop (or to its return, if that comes first)
RECURSIVE MultiLanguageAlone(_, _, _)
MultiLanguageAlone(self, frame, i) ==
    IF frame.pc = "done" \/ frame.i = i THEN frame
    ELSE MultiLanguageAlone(self, generateMultiLanguageResume(self, frame).frame, i)

\* the invocation a call of op(limit) is when it runs alone on the collection
Alone(op, limit, i) ==
    IF op = "generateMultiLanguage"
    THEN MultiLanguageAlone(sm, generateMultiLanguage(sm).frame, i)
    ELSE [Idle EXCEPT
             !.op = op, !.limit = limit, !.pc = "done",
             !.result = IF op = "generateSitemapsList"
                        THEN generateSitemapsList(sm).return
                        ELSE generate(sm, limit).return]

\* C10: however two generation calls on the same collection interleave at
\* their await points, each is at every point where it would be if it ran
\* alone (its index collection, its child collection and the child's
\* document), and returns the document it would return alone.
C10_NoInterference ==
    \A c \in Calls :
        calls[c].op \in GenerationOps =>
            calls[c] = Alone(calls[c].op, calls[c].limit, calls[c].i)

C10_Witness ==
    /\ calls[1].op = "generateMultiLanguage" /\ calls[1].pc = "await"
    /\ calls[2].op = "generateMultiLanguage" /\ calls[2].pc = "await"
    /\ calls[1].i = 1 /\ calls[2].i = 2
    /\ Len(sm.paths) > 0
    /\ Len(calls[2].sitemapIndex.paths) = 1

====
